---------------------------- MODULE Spec2Model ----------------------------
(***************************************************************************)
(* ContrastRobust-VO, src/preprocess: the SDR -> HDR -> SDR pipeline.      *)
(*                                                                         *)
(*   sdr_hdr_sdr_pipeline.py  batch loop (main) and process_one_file       *)
(*   proposed_itmo.py         _histogram and proposed_itmo                 *)
(*   proposed_tmo.py          _from_pq and proposed_tmo                    *)
(*                                                                         *)
(* Spec    is the batch loop of main, run RunsOfMain times with identical  *)
(*         arguments over one input directory and one output directory.    *)
(* SpecFn  applies the numeric functions to inputs drawn from bounded      *)
(*         sets.  Real numbers are fixed-point integers with FP units to   *)
(*         one.                                                            *)
(***************************************************************************)
EXTENDS Integers, Sequences, FiniteSets, TLC

VARIABLES
    inDir,      \* the input directory: a function from file paths to what the file holds
    args,       \* the parsed command line of main
    outFS,      \* the output directory: path -> content, NoFile when absent
    npyFS,      \* the --save-hdr-npy-dir directory: file name -> content
    files,      \* main's sorted list of matched files
    idx,        \* position of the for loop in files (1-based)
    run,        \* which run of main this is
    pc,         \* "start" | "loop" | "exit" | "crashed"
    log,        \* what this run printed, one record per line
    written1,   \* the output paths the first run wrote
    initOut,    \* the output paths that existed before the first run
    fn,         \* SpecFn: the function last applied ("idle" before any)
    inp,        \* SpecFn: its arguments
    out         \* SpecFn: what it returned

vars == <<inDir, args, outFS, npyFS, files, idx, run, pc, log, written1, initOut, fn, inp, out>>

batchVars == <<inDir, args, outFS, npyFS, files, idx, run, pc, log, written1, initOut>>
fnVars == <<fn, inp, out>>

-----------------------------------------------------------------------------
(* Bounds of the model.                                                    *)

MaxFiles == 2
RunsOfMain == 2

-----------------------------------------------------------------------------
(* File system and command line of sdr_hdr_sdr_pipeline.py.                *)

NoFile == [src |-> "none", run |-> 0]
Preexisting == [src |-> "preexisting", run |-> 0]

\* Paths under --input-dir: directory part ("" is the input directory itself), stem, suffix.
InputPaths ==
    { [dir |-> "", stem |-> "a", ext |-> ".jpg"], [dir |-> "", stem |-> "a", ext |-> ".png"],
      [dir |-> "", stem |-> "b", ext |-> ".png"], [dir |-> "d", stem |-> "a", ext |-> ".png"] }

\* What _read_image makes of a file: an H x W x 3 array, an H x W array, or an exception.
FileKinds == {"rgb", "gray", "corrupt"}

\* The parameters proposed_tmo declares.
TmoDeclaredParams ==
    {"imgIn_HDR", "mappingCurve", "hDRmin_PQ", "hDRmax_PQ", "sDRmin_PQ", "sDRmax_PQ",
     "sDRmin", "sDRmax", "gammaSDR", "alpha"}

\* _load_modules imports proposed_tmo from the first directory of sys.path that holds
\* one: the repository's, or with --tmo-path another module of that name, which here
\* declares the keyword the orchestrator passes.
TmoParams(tmoPath) ==
    IF tmoPath = "none" THEN TmoDeclaredParams ELSE {"imgIn_HDR", "MappingCurve"}

\* The keywords of process_one_file's call tmo(hdr_pq_2020, MappingCurve=mapping_curve).
TmoCallKeywords == {"MappingCurve"}

\* Python raises TypeError for a keyword the callee does not declare.
TmoCallAccepted(tmoPath) == TmoCallKeywords \subseteq TmoParams(tmoPath)

\* sorted(in_dir.glob(pattern)): paths order by their parts; "d" sorts after every
\* file name of the input directory.
NameRank(s) == CASE s = "a" -> 0 [] s = "b" -> 1 [] OTHER -> 2
ExtRank(e) == IF e = ".jpg" THEN 0 ELSE 1
SortKey(p) == (IF p.dir = "" THEN 0 ELSE 100) + 10 * NameRank(p.stem) + ExtRank(p.ext)

\* pattern = f"**/{args.glob}" if args.recursive else args.glob
GlobMatches(p, a) ==
    /\ a.recursive \/ p.dir = ""
    /\ a.glob = "*.png" => p.ext = ".png"

RECURSIVE SortPaths(_)
SortPaths(S) ==
    IF S = {} THEN <<>>
    ELSE LET m == CHOOSE x \in S : \A y \in S : SortKey(x) <= SortKey(y)
         IN <<m>> \o SortPaths(S \ {m})

Glob(dir, a) == SortPaths({ p \in DOMAIN dir : GlobMatches(p, a) })

\* rel = ip.relative_to(in_dir) if args.recursive else Path(ip.name)
Rel(ip, a) == IF a.recursive THEN ip ELSE [ip EXCEPT !.dir = ""]

\* out_rel = rel.with_suffix(args.output_ext)
OutRel(ip, a) == [Rel(ip, a) EXCEPT !.ext = a.output_ext]

OutPaths == { [dir |-> p.dir, stem |-> p.stem, ext |-> ".png"] : p \in InputPaths }

\* save_hdr_npy_dir / (in_path.stem + "_hdr_pq2020.npy")
NpyName(ip) == ip.stem

Exists(fs, p) == fs[p] # NoFile

ShouldSkipWhenOverwriting(fs, op, a) == Exists(fs, op) /\ a.overwrite

\* if op.exists() and not args.overwrite: print [skip]; continue
ShouldSkip(fs, op, a) == Exists(fs, op) /\ ~a.overwrite

HandlerCatchesNothing == FALSE

\* except Exception as e: the handler of the batch loop catches what process_one_file raises.
HandlerCatches == TRUE

\* process_one_file: the steps it completes, in order, and whether the last one raised.
\* writeOk is whether _write_image succeeds.
ProcessSteps(ip, kind, a, writeOk) ==
    LET s1 == <<"read">>
        s2 == s1 \o <<"ensure_uint">> \o (IF kind = "gray" THEN <<"promote">> ELSE <<>>) \o <<"itmo">>
        s3 == s2 \o (IF a.save_hdr THEN <<"save_hdr">> ELSE <<>>)
        s4 == s3 \o <<"tmo">>
        s5 == s4 \o <<"quantize">>
    IN  IF kind = "corrupt" THEN [done |-> <<>>, raised |-> "read"]
        ELSE IF ~TmoCallAccepted(a.tmo_path) THEN [done |-> s3, raised |-> "tmo"]
        ELSE IF ~writeOk THEN [done |-> s5, raised |-> "write"]
        ELSE [done |-> s5 \o <<"write">>, raised |-> "none"]

AllSteps(kind, a) ==
    <<"read", "ensure_uint">> \o (IF kind = "gray" THEN <<"promote">> ELSE <<>>) \o <<"itmo">>
        \o (IF a.save_hdr THEN <<"save_hdr">> ELSE <<>>) \o <<"tmo", "quantize", "write">>

Contains(seq, x) == \E i \in 1..Len(seq) : seq[i] = x

ArgSets ==
    [recursive : BOOLEAN, glob : {"*.png", "*.*"}, output_ext : {".png"}, overwrite : BOOLEAN,
     save_hdr : BOOLEAN, tmo_path : {"none", "other"}]

InputDirs ==
    UNION { [S -> FileKinds] : S \in { T \in SUBSET InputPaths : Cardinality(T) <= MaxFiles } }

BatchIdle ==
    /\ inDir = <<>> /\ args = <<>> /\ outFS = <<>> /\ npyFS = <<>> /\ files = <<>>
    /\ idx = 0 /\ run = 0 /\ pc = "idle" /\ log = <<>> /\ written1 = {} /\ initOut = {}

FnIdle == fn = "idle" /\ inp = <<>> /\ out = <<>>

Init ==
    /\ inDir \in InputDirs
    /\ args \in ArgSets
    /\ initOut \in SUBSET { OutRel(p, args) : p \in DOMAIN inDir }
    /\ outFS = [p \in OutPaths |-> IF p \in initOut THEN Preexisting ELSE NoFile]
    /\ npyFS = [s \in {"a", "b"} |-> NoFile]
    /\ files = <<>>
    /\ idx = 0
    /\ run = 1
    /\ pc = "start"
    /\ log = <<>>
    /\ written1 = {}
    /\ FnIdle

\* main up to the for loop: glob, sort, and the [warn] return when nothing matched.
StartRun ==
    /\ pc = "start"
    /\ files' = Glob(inDir, args)
    /\ IF files' = <<>>
          THEN /\ log' = <<[rel |-> "none", status |-> "warn", steps |-> <<>>, raised |-> "none"]>>
               /\ pc' = "exit"
               /\ idx' = 0
          ELSE /\ log' = log
               /\ pc' = "loop"
               /\ idx' = 1
    /\ UNCHANGED <<inDir, args, outFS, npyFS, run, written1, initOut, fnVars>>

AfterFile == IF idx = Len(files) THEN "exit" ELSE "loop"

\* One iteration of the for loop whose output exists and is not overwritten.
SkipFile ==
    /\ pc = "loop"
    /\ LET ip == files[idx]
           op == OutRel(ip, args)
       IN  /\ ShouldSkip(outFS, op, args)
           /\ log' = Append(log, [rel |-> Rel(ip, args), status |-> "skip", steps |-> <<>>,
                                  raised |-> "none"])
    /\ idx' = idx + 1
    /\ pc' = AfterFile
    /\ UNCHANGED <<inDir, args, outFS, npyFS, files, run, written1, initOut, fnVars>>

\* One iteration of the for loop that calls process_one_file inside the try.
ProcessFile ==
    /\ pc = "loop"
    /\ LET ip == files[idx]
           op == OutRel(ip, args)
       IN  /\ ~ShouldSkip(outFS, op, args)
           /\ \E writeOk \in BOOLEAN, partial \in BOOLEAN :
                LET r == ProcessSteps(ip, inDir[ip], args, writeOk)
                    wrote == r.raised = "none" \/ (r.raised = "write" /\ partial)
                IN  /\ (r.raised # "write") => (writeOk /\ ~partial)
                    /\ writeOk => ~partial
                    /\ outFS' = IF wrote THEN [outFS EXCEPT ![op] = [src |-> ip, run |-> run]]
                                ELSE outFS
                    /\ npyFS' = IF Contains(r.done, "save_hdr")
                                THEN [npyFS EXCEPT ![NpyName(ip)] = [src |-> ip, run |-> run]]
                                ELSE npyFS
                    /\ written1' = IF wrote /\ run = 1 THEN written1 \cup {op} ELSE written1
                    /\ log' = Append(log, [rel |-> Rel(ip, args),
                                           status |-> IF r.raised = "none" THEN "ok" ELSE "err",
                                           steps |-> r.done, raised |-> r.raised])
                    /\ IF r.raised = "none" \/ HandlerCatches
                          THEN idx' = idx + 1 /\ pc' = AfterFile
                          ELSE idx' = idx /\ pc' = "crashed"
    /\ UNCHANGED <<inDir, args, files, run, initOut, fnVars>>

\* main is run again with identical arguments.
RunAgain ==
    /\ pc = "exit"
    /\ run < RunsOfMain
    /\ run' = run + 1
    /\ pc' = "start"
    /\ log' = <<>>
    /\ UNCHANGED <<inDir, args, outFS, npyFS, files, idx, written1, initOut, fnVars>>

Next == StartRun \/ SkipFile \/ ProcessFile \/ RunAgain

Spec == Init /\ [][Next]_vars



-----------------------------------------------------------------------------
(* Fixed-point arithmetic for the float64 computations of the operators.   *)
(* A real x is the integer nearest x * FP; products and quotients are      *)
(* truncated toward zero.                                                   *)

FP == 1000 * 1000
FPHalf == FP \div 1000

Abs(x) == IF x < 0 THEN -x ELSE x
Sign(x) == IF x < 0 THEN -1 ELSE 1
Max(a, b) == IF a >= b THEN a ELSE b
Min(a, b) == IF a <= b THEN a ELSE b

\* a * b
FMul(a, b) ==
    LET x == Abs(a)
        y == Abs(b)
        xh == x \div FPHalf
        xl == x % FPHalf
        yh == y \div FPHalf
        yl == y % FPHalf
    IN  Sign(a) * Sign(b) * (xh * yh + (xh * yl + xl * yh + (xl * yl) \div FPHalf) \div FPHalf)

RECURSIVE DivDigits(_, _, _, _)
DivDigits(q, r, y, k) ==
    IF k = 0 THEN q ELSE DivDigits(10 * q + (10 * r) \div y, (10 * r) % y, y, k - 1)

\* a / b for b # 0 (a divisor of 200 or more is taken to seven digits)
FDiv(a, b) ==
    LET x == Abs(a)
        y == Abs(b)
        y10 == y \div 10
    IN  IF y < 200 * FP THEN Sign(a) * Sign(b) * DivDigits(x \div y, x % y, y, 6)
        ELSE Sign(a) * Sign(b) * DivDigits(x \div y10, x % y10, y10, 5)

\* np.clip(x, lo, hi)
Clip(x, lo, hi) == Min(Max(x, lo), hi)


\* atanh series: ln(x) = 2 (z + z^3/3 + z^5/5 + ...), z = (x - 1) / (x + 1), for x near 1
LnNear1(x) ==
    LET z == FDiv(x - FP, x + FP)
        z2 == FMul(z, z)
        z3 == FMul(z, z2)
        z5 == FMul(z3, z2)
        z7 == FMul(z5, z2)
        z9 == FMul(z7, z2)
        z11 == FMul(z9, z2)
    IN  2 * (z + z3 \div 3 + z5 \div 5 + z7 \div 7 + z9 \div 9 + z11 \div 11)

\* ln 2 = 0.693147
Ln2 == 693 * 1000 + 147

\* natural logarithm of x > 0, halving or doubling x into [0.75, 1.5]
RECURSIVE Ln(_)
Ln(x) ==
    IF 2 * x > 3 * FP THEN Ln2 + Ln((x + 1) \div 2)
    ELSE IF 4 * x < 3 * FP THEN Ln(2 * x) - Ln2
    ELSE LnNear1(x)

\* Taylor series of exp on [-ln 2, ln 2]
ExpSmall(x) ==
    LET x2 == FMul(x, x)
        x3 == FMul(x2, x)
        x4 == FMul(x3, x)
        x5 == FMul(x4, x)
        x6 == FMul(x5, x)
        x7 == FMul(x6, x)
        x8 == FMul(x7, x)
        x9 == FMul(x8, x)
    IN  FP + x + x2 \div 2 + x3 \div 6 + x4 \div 24 + x5 \div 120 + x6 \div 720 + x7 \div 5040
           + x8 \div 40320 + x9 \div 362880

\* exp(x), halving the result for each ln 2 taken off a negative x
RECURSIVE Exp(_)
Exp(x) ==
    IF x < -Ln2 THEN Exp(x + Ln2) \div 2
    ELSE IF x > Ln2 THEN 2 * Exp(x - Ln2)
    ELSE ExpSmall(x)

\* np.power(x, y) for x >= 0 and y > 0
Pow(x, y) == IF x <= 0 THEN 0 ELSE Exp(FMul(y, Ln(x)))


-----------------------------------------------------------------------------
(* proposed_itmo.py: _histogram.                                           *)

\* np.asarray: the array holding the values of f, each computed once
Arr(f) == f \o <<>>

\* np.sum of f[lo..hi]
RECURSIVE SeqSum(_, _, _)
SeqSum(f, lo, hi) ==
    IF lo > hi THEN 0
    ELSE IF lo = hi THEN f[lo]
    ELSE LET mid == (lo + hi) \div 2
         IN  SeqSum(f, lo, mid) + SeqSum(f, mid + 1, hi)

\* edges of the bins from their centers: [c0 - w, c0 + w] with w = 0.5 for one center;
\* else half = np.diff(c) / 2, edges = [c[0] - half[0]] ++ (c[:-1] + half) ++ [c[-1] + half[-1]]
HistEdges(c) ==
    LET n == Len(c)
        half == [i \in 1..(n - 1) |-> (c[i + 1] - c[i]) \div 2]
    IN  IF n = 1 THEN <<c[1] - FP \div 2, c[1] + FP \div 2>>
        ELSE <<c[1] - half[1]>> \o [i \in 1..(n - 1) |-> c[i] + half[i]]
                 \o <<c[n] + half[n - 1]>>

InBinRightOpen(v, i, edges) == edges[i] <= v /\ v < edges[i + 1]

\* np.histogram(x, bins=edges): bin i is [edges[i], edges[i+1]), the last bin also holds
\* its right edge
InBin(v, i, edges) ==
    /\ edges[i] <= v
    /\ \/ v < edges[i + 1]
       \/ i = Len(edges) - 1 /\ v = edges[i + 1]

\* counts, _ = np.histogram(x, bins=edges)
HistCounts(x, edges) ==
    Arr([i \in 1..(Len(edges) - 1) |-> Cardinality({ k \in 1..Len(x) : InBin(x[k], i, edges) })])

\* _histogram(x, centers): one count per center
Histogram(x, centers) ==
    IF Len(centers) = 0 THEN <<>> ELSE HistCounts(x, HistEdges(centers))

-----------------------------------------------------------------------------
(* proposed_itmo.py: proposed_itmo.                                        *)

\* PQ constants (SMPTE ST 2084); l_max_PQ = 10000 enters through its logarithm
ln_l_max_PQ == 4 * Ln(10 * FP)
m_PQ == 78843800
n_PQ == 159300
c1_PQ == 835900
c2_PQ == 18851600
c3_PQ == 18687500

maxValueY(bitDepth) == 256 * 2 ^ (bitDepth - 8) - 1
minValueY(bitDepth) == 0

disp_Min_Low == FP \div 20

disp_Min == 100000
disp_Max == 100000000
hDR_Min_PQ == 21500
hDR_Max_PQ == 751800

\* img_normalized = (np.clip(img_double, minValueY, maxValueY) / scale) / 255.0
Normalize(code, bitDepth) ==
    FDiv(FDiv(Clip(code, minValueY(bitDepth), maxValueY(bitDepth)) * FP,
              (2 ^ (bitDepth - 8)) * FP), 255 * FP)

gamma_22 == 2200000

\* img_light = np.power(img_normalized, 2.2)
ToLight(code, bitDepth) == Pow(Normalize(code, bitDepth), gamma_22)

\* y_SDR = 0.2126 R + 0.7152 G + 0.0722 B
Luma709(px) == FMul(212600, px[1]) + FMul(715200, px[2]) + FMul(72200, px[3])

\* x * (disp_Max - disp_Min) + disp_Min
ToDisplayLight(x) == FMul(x, disp_Max - disp_Min) + disp_Min

\* _to_pq: t = (max(L / l_max, 0))^n; ((c2 t + c1) / (c3 t + 1))^m
ToPQ(L) ==
    LET t == IF L <= 0 THEN 0 ELSE Exp(FMul(n_PQ, Ln(L) - ln_l_max_PQ))
        num == FMul(c2_PQ, t) + c1_PQ
        den == FMul(c3_PQ, t) + FP
    IN  Pow(FDiv(num, den), m_PQ)

itmo_xmin == 62300
itmo_xmax == 508100
itmo_ymin == 21500
itmo_ymax == 751800

\* centers = np.linspace(xmin, xmax, num_bins)
Linspace(lo, hi, n) == [i \in 1..n |-> lo + ((i - 1) * (hi - lo)) \div (n - 1)]

itmo_x1 == 123300
itmo_x2 == 397500
threshold_low == 35
threshold_high == 192
itmo_n1 == 35000000
itmo_n2 == 157000000
itmo_n3 == 64000000
delta1 == 61000
delta2 == 274200
delta3 == 110600
itmo_r == 284500
itmo_fc == 80900
itmo_fb == 13697100

\* the third region read as n_light[192:256], which is the whole tail only at bit depth 8
RegionSumsEightBit(n_light, total) ==
    LET q == [i \in 1..Len(n_light) |-> IF total = 0 THEN 0 ELSE FDiv(n_light[i] * FP, total * FP)]
    IN  [p1 |-> SeqSum(q, 1, threshold_low),
         p2 |-> SeqSum(q, threshold_low + 1, threshold_high),
         p3 |-> SeqSum(q, threshold_high + 1, 256),
         total |-> total]

\* p1, p2, p3: the histogram mass below bin 35, from bin 35 to 191, from bin 192 on
\* (zeros when the histogram is empty)
RegionSums(n_light, total) ==
    LET q == [i \in 1..Len(n_light) |-> IF total = 0 THEN 0 ELSE FDiv(n_light[i] * FP, total * FP)]
    IN  [p1 |-> SeqSum(q, 1, threshold_low),
         p2 |-> SeqSum(q, threshold_low + 1, threshold_high),
         p3 |-> SeqSum(q, threshold_high + 1, Len(n_light)),
         total |-> total]

\* total = np.sum(n_light), then the three sums
RegionProbabilities(n_light) == RegionSums(n_light, SeqSum(n_light, 1, Len(n_light)))

\* M3(a, b, c) = a * b * c and M4 likewise, left to right as Python evaluates them
M3(a, b, c) == FMul(FMul(a, b), c)
M4(a, b, c, d) == FMul(FMul(FMul(a, b), c), d)

\* The closed-form solve of the slopes (the lines from p_1 to X3).  finite is FALSE when a
\* divisor is zero, where numpy continues with inf or nan.
SolveCurve(p, wB, wC) ==
    LET xmin == itmo_xmin
        xmax == itmo_xmax
        ymin == itmo_ymin
        ymax == itmo_ymax
        x1 == itmo_x1
        n1 == itmo_n1
        n2 == itmo_n2
        n3 == itmo_n3
        p_1 == (FP - p.p1) \div 2
        p_2 == (FP - p.p2) \div 2
        p_3 == (FP - p.p3) \div 2
        a1 == FMul(p_1, 307300)
        a2 == FMul(p_2, 11586600)
        a3 == FMul(p_3, 13201900)
        b1 == FMul(p_1, 3220700)
        b2 == FMul(p_2, 40796500)
        b3 == FMul(p_3, 28994000)
        w1 == FDiv(wC, itmo_fc)
        w2 == FDiv(wB, itmo_fb)
        denom1 == M4(w1, delta1, delta1, p_1) + FMul(w2, a1) - M4(2 * FP, w2, xmin, b1)
                    + M4(w2, n1, xmin, xmin) + M4(w2, n2, delta1, delta1)
        denom2 == M4(w1, delta2, delta2, p_2) + FMul(w2, a2) - M4(2 * FP, w2, x1, b2)
                    + M4(w2, n2, x1, x1)
        denom3 == M4(w1, delta3, delta3, p_3) + FMul(w2, a3) - M4(2 * FP, w2, xmax, b3)
                    + M4(w2, n3, xmax, xmax)
        ok1 == denom1 # 0 /\ denom2 # 0 /\ denom3 # 0
        a == FDiv(M4(w2, n2, delta1, x1) - M3(w2, delta1, b2), denom1)
        b == FDiv(M4(w2, n1, ymin - xmin, xmin) - M3(w2, ymin - xmin, b1)
                    - M4(w2, n2, ymin - xmin, delta1), denom1)
        c == FDiv(-delta1, 2 * denom1)
        d == FDiv(M4(w2, n2, delta1, x1) - M3(w2, delta1, b2), denom2)
        e == FDiv(M4(w2, n2, ymin - xmin, x1) - M3(w2, ymin - xmin, b2), denom2)
        f == FDiv(-delta2, 2 * denom2)
        g == FDiv(M4(w2, n3, ymax - xmax, xmax) - M3(w2, ymax - xmax, b3), denom3)
        h == FDiv(-delta3, 2 * denom3)
        ad == FP - FMul(a, d)
        ok2 == ok1 /\ ad # 0
        x1a == FDiv(FMul(a, e) + b, ad)
        x2a == FDiv(FMul(b, d) + e, ad)
        c1lam == FDiv(FMul(a, f) + c, ad)
        c2lam == FDiv(FMul(c, d) + f, ad)
        lam_num == itmo_r - (FMul(x1a, delta1) + FMul(x2a, delta2) + FMul(g, delta3))
        lam_den == FMul(c1lam, delta1) + FMul(c2lam, delta2) + FMul(h, delta3)
        ok3 == ok2 /\ lam_den # 0
        lam == FDiv(lam_num, lam_den)
    IN  IF ~ok3 THEN [finite |-> FALSE, x1 |-> 0, x2 |-> 0, X3 |-> 0]
        ELSE [finite |-> TRUE,
              x1 |-> x1a + FMul(c1lam, lam),
              x2 |-> x2a + FMul(c2lam, lam),
              X3 |-> g + FMul(h, lam)]

\* The expansion function: s_k = x_k + 1, a1 = ymin - s1 xmin, a2 = (s1 - s2) x1 + a1,
\* a3 = ymax - s3 xmax, with x1 and x2 as the solve left them.
ExpansionCurve(sol) ==
    LET s1 == sol.x1 + FP
        s2 == sol.x2 + FP
        s3 == sol.X3 + FP
        a1 == itmo_ymin - FMul(s1, itmo_xmin)
    IN  [s1 |-> s1, s2 |-> s2, s3 |-> s3,
         a1 |-> a1,
         a2 |-> FMul(s1 - s2, sol.x1) + a1,
         a3 |-> itmo_ymax - FMul(s3, itmo_xmax),
         x1 |-> sol.x1, x2 |-> sol.x2]

\* lhdr_PQ before the clamp: segment 3, replaced by segment 2 where l < x2, then by
\* segment 1 where l < x1
ExpandLuma(cv, l) ==
    IF l < cv.x1 THEN FMul(cv.s1, l) + cv.a1
    ELSE IF l < cv.x2 THEN FMul(cv.s2, l) + cv.a2
    ELSE FMul(cv.s3, l) + cv.a3

\* np.clip(lhdr_PQ, ymin, ymax)
ClampLuma(v) == Clip(v, itmo_ymin, itmo_ymax)

UnclampedChannel(v) == v

\* np.clip(red_HDR_PQ, hDR_Min_PQ, hDR_Max_PQ), and green and blue alike
ClampChannel(v) == Clip(v, hDR_Min_PQ, hDR_Max_PQ)

\* BT.709 -> BT.2020, each channel then clipped to [0, 1]
To2020(px) ==
    << Clip(FMul(627404, px[1]) + FMul(329283, px[2]) + FMul(43313, px[3]), 0, FP),
       Clip(FMul(69097, px[1]) + FMul(919504, px[2]) + FMul(11362, px[3]), 0, FP),
       Clip(FMul(16391, px[1]) + FMul(88013, px[2]) + FMul(895595, px[3]), 0, FP) >>

NaNPixel == <<"nan", "nan", "nan">>

\* img_light: the frame clipped, normalized and raised to 2.2, pixel by pixel
ImgLight(input_frame, input_bit_depth) ==
    Arr([k \in 1..Len(input_frame) |->
            << ToLight(input_frame[k][1], input_bit_depth),
               ToLight(input_frame[k][2], input_bit_depth),
               ToLight(input_frame[k][3], input_bit_depth) >>])

\* L_disp = y_SDR * (disp_Max - disp_Min) + disp_Min
DisplayLuma(img_light) ==
    Arr([k \in 1..Len(img_light) |-> ToDisplayLight(Luma709(img_light[k]))])

\* l_disp_PQ = _to_pq(L_disp)
LumaPQ(L_disp) == Arr([k \in 1..Len(L_disp) |-> ToPQ(L_disp[k])])

\* red_SDR_PQ, green_SDR_PQ, blue_SDR_PQ = _to_pq of the channels in display light
ChannelsPQ(img_light) ==
    Arr([k \in 1..Len(img_light) |->
            << ToPQ(ToDisplayLight(img_light[k][1])),
               ToPQ(ToDisplayLight(img_light[k][2])),
               ToPQ(ToDisplayLight(img_light[k][3])) >>])

\* n_light = _histogram(l_disp_PQ, np.linspace(xmin, xmax, 2 ** input_bit_depth))
LumaHistogram(l_disp_PQ, input_bit_depth) ==
    Histogram(l_disp_PQ, Arr(Linspace(itmo_xmin, itmo_xmax, 2 ^ input_bit_depth)))

\* The expansion applied with the curve cv: the luma through the selected segment, the
\* clamp, the ratio, the scaled and clamped channels, the gamut conversion.
ApplyCurve(L_disp, l_disp_PQ, SDR_PQ, p, cv) ==
    LET N == Len(l_disp_PQ)
        lhdr_raw == Arr([k \in 1..N |-> ExpandLuma(cv, l_disp_PQ[k])])
        lhdr_PQ == Arr([k \in 1..N |-> ClampLuma(ExpandLuma(cv, l_disp_PQ[k]))])
        HDR_PQ == Arr([k \in 1..N |->
                    [ch \in 1..3 |->
                        ClampChannel(FMul(FDiv(ClampLuma(ExpandLuma(cv, l_disp_PQ[k])),
                                               l_disp_PQ[k]),
                                          SDR_PQ[k][ch]))] \o <<>>])
    IN  [finite |-> TRUE, L_disp |-> L_disp, l_disp_PQ |-> l_disp_PQ, p |-> p, curve |-> cv,
         lhdr_raw |-> lhdr_raw, lhdr_PQ |-> lhdr_PQ, HDR_PQ |-> HDR_PQ,
         imgOut |-> Arr([k \in 1..N |-> To2020(HDR_PQ[k])])]

\* The solve and, when its values are finite, the expansion; nan in every channel else.
SolveAndApply(L_disp, l_disp_PQ, SDR_PQ, p, sol) ==
    IF sol.finite THEN ApplyCurve(L_disp, l_disp_PQ, SDR_PQ, p, ExpansionCurve(sol))
    ELSE [finite |-> FALSE, L_disp |-> L_disp, l_disp_PQ |-> l_disp_PQ, p |-> p, curve |-> <<>>,
          lhdr_raw |-> <<>>, lhdr_PQ |-> <<>>, HDR_PQ |-> <<>>,
          imgOut |-> Arr([k \in 1..Len(L_disp) |-> NaNPixel])]

ExpandFrame(L_disp, l_disp_PQ, SDR_PQ, p, wB, wC) ==
    SolveAndApply(L_disp, l_disp_PQ, SDR_PQ, p, SolveCurve(p, wB, wC))

ExpandFromLuma(L_disp, l_disp_PQ, SDR_PQ, input_bit_depth, wB, wC) ==
    ExpandFrame(L_disp, l_disp_PQ, SDR_PQ,
                RegionProbabilities(LumaHistogram(l_disp_PQ, input_bit_depth)), wB, wC)

ExpandFromLight(img_light, L_disp, input_bit_depth, wB, wC) ==
    ExpandFromLuma(L_disp, LumaPQ(L_disp), ChannelsPQ(img_light), input_bit_depth, wB, wC)

ItmoFromLight(img_light, input_bit_depth, wB, wC) ==
    ExpandFromLight(img_light, DisplayLuma(img_light), input_bit_depth, wB, wC)

\* proposed_itmo(input_frame, input_bit_depth, wB, wC) on a frame given as the sequence
\* of its pixels, with the intermediate values the properties speak of.
proposed_itmo(input_frame, input_bit_depth, wB, wC) ==
    ItmoFromLight(ImgLight(input_frame, input_bit_depth), input_bit_depth, wB, wC)

-----------------------------------------------------------------------------
(* proposed_tmo.py.                                                        *)

hDRmin_PQ == 21500
hDRmax_PQ == 751800
sDRmin_PQ == 62300
sDRmax_PQ == 508100
sDRmin == 100000
sDRmax == 100000000

\* _from_pq for a P_root = max(P, 0)^(1/m); the divisor c2 - c3 P_root is positive for P <= 1
FromPQRoot(P_root) ==
    LET num == Max(P_root - c1_PQ, 0)
        den == c2_PQ - FMul(c3_PQ, P_root)
        q == Max(FDiv(num, den), 0)
    IN  IF q = 0 THEN 0 ELSE Exp(ln_l_max_PQ + FMul(FDiv(FP, n_PQ), Ln(q)))

\* _from_pq(P) = l_max * (max(P_root - c1, 0) / (c2 - c3 P_root))^(1/n)
FromPQ(P) == FromPQRoot(Pow(Max(P, 0), FDiv(FP, m_PQ)))

\* y_HDR_PQ = 0.2627 R + 0.6779 G + 0.0593 B
Luma2020(px) == FMul(262700, px[1]) + FMul(677900, px[2]) + FMul(59300, px[3])

tmo_x1 == 131000
tmo_x2 == 459700
tmo_s1 == 557000
tmo_s2 == 833900
tmo_s3 == 378700
tmo_a1 == 50300
tmo_a2 == 14100
tmo_a3 == 223300
tmo_c1 == 601200
tmo_c2 == 590200

\* The mapping curve: segment 3, replaced by segment 2 where y < x2, then by segment 1
\* where y < x1; c1 * y^c2 for any other mappingCurve
MappingCurve(y, mappingCurve) ==
    IF mappingCurve = "PiecewiseLinear"
    THEN IF y < tmo_x1 THEN FMul(tmo_s1, y) + tmo_a1
         ELSE IF y < tmo_x2 THEN FMul(tmo_s2, y) + tmo_a2
         ELSE FMul(tmo_s3, y) + tmo_a3
    ELSE FMul(tmo_c1, Pow(y, tmo_c2))

\* ratio = y_SDR_PQ / y_HDR_PQ where y_HDR_PQ != 0, zero elsewhere
LumaRatio(y_SDR_PQ, y_HDR_PQ) == IF y_HDR_PQ # 0 THEN FDiv(y_SDR_PQ, y_HDR_PQ) ELSE 0

\* One channel from the scaled PQ value to normalized SDR light: the clip to the SDR PQ
\* range, _from_pq, the clip to [sDRmin, sDRmax], (x - sDRmin) / (sDRmax - sDRmin)
ToSdrNormalized(v) ==
    FDiv(Clip(FromPQ(Clip(v, sDRmin_PQ, sDRmax_PQ)), sDRmin, sDRmax) - sDRmin, sDRmax - sDRmin)

\* BT.2020 -> BT.709
To709(px) ==
    << FMul(1660500, px[1]) - FMul(587600, px[2]) - FMul(72800, px[3]),
       FMul(-124600, px[1]) + FMul(1132900, px[2]) - FMul(8300, px[3]),
       FMul(-18200, px[1]) - FMul(100600, px[2]) + FMul(1118700, px[3]) >>

\* np.power(np.clip(imgOut_709, 0, 1), 1 / gammaSDR)
GammaEncode(px, gammaSDR) ==
    << Pow(Clip(px[1], 0, FP), FDiv(FP, gammaSDR)),
       Pow(Clip(px[2], 0, FP), FDiv(FP, gammaSDR)),
       Pow(Clip(px[3], 0, FP), FDiv(FP, gammaSDR)) >>

\* The pixel px of imgIn_HDR_PQ with its luma and mapped luma: the scaled channels through
\* ToSdrNormalized, To709 and GammaEncode
TmoPixel(px, y_HDR_PQ, y_SDR_PQ, gammaSDR, alpha) ==
    GammaEncode(To709(<< ToSdrNormalized(FMul(FMul(alpha, LumaRatio(y_SDR_PQ, y_HDR_PQ)), px[1])),
                         ToSdrNormalized(FMul(FMul(alpha, LumaRatio(y_SDR_PQ, y_HDR_PQ)), px[2])),
                         ToSdrNormalized(FMul(FMul(alpha, LumaRatio(y_SDR_PQ, y_HDR_PQ)), px[3])) >>),
                gammaSDR)

TmoFromCurve(imgIn_HDR_PQ, y_HDR_PQ, y_SDR_PQ, gammaSDR, alpha) ==
    [imgIn_HDR_PQ |-> imgIn_HDR_PQ, y_HDR_PQ |-> y_HDR_PQ, y_SDR_PQ |-> y_SDR_PQ,
     imgOut_SDR |-> Arr([k \in 1..Len(imgIn_HDR_PQ) |->
                        TmoPixel(imgIn_HDR_PQ[k], y_HDR_PQ[k], y_SDR_PQ[k], gammaSDR, alpha)])]

TmoFromLuma(imgIn_HDR_PQ, y_HDR_PQ, mappingCurve, gammaSDR, alpha) ==
    TmoFromCurve(imgIn_HDR_PQ, y_HDR_PQ,
                 Arr([k \in 1..Len(y_HDR_PQ) |-> MappingCurve(y_HDR_PQ[k], mappingCurve)]),
                 gammaSDR, alpha)

TmoFromClipped(imgIn_HDR_PQ, mappingCurve, gammaSDR, alpha) ==
    TmoFromLuma(imgIn_HDR_PQ, Arr([k \in 1..Len(imgIn_HDR_PQ) |-> Luma2020(imgIn_HDR_PQ[k])]),
                mappingCurve, gammaSDR, alpha)

\* proposed_tmo(imgIn_HDR, mappingCurve, gammaSDR=..., alpha=...) with the PQ and light
\* ranges at their defaults, on a frame given as the sequence of its pixels
proposed_tmo(imgIn_HDR, mappingCurve, gammaSDR, alpha) ==
    TmoFromClipped(Arr([k \in 1..Len(imgIn_HDR) |->
                          << Clip(imgIn_HDR[k][1], hDRmin_PQ, hDRmax_PQ),
                             Clip(imgIn_HDR[k][2], hDRmin_PQ, hDRmax_PQ),
                             Clip(imgIn_HDR[k][3], hDRmin_PQ, hDRmax_PQ) >>]),
                   mappingCurve, gammaSDR, alpha)

-----------------------------------------------------------------------------
(* sdr_hdr_sdr_pipeline.py: _ensure_uint and the grayscale promotion.      *)

\* np.round: to the nearest integer, a tie to the even one
RoundHalfEven(x) ==
    LET q == x \div FP
        r == x % FP
    IN  IF 2 * r < FP THEN q
        ELSE IF 2 * r > FP THEN q + 1
        ELSE IF q % 2 = 0 THEN q ELSE q + 1

\* astype(np.uint16 if bit_depth > 8 else np.uint8) of a rounded float: the value when the
\* type holds it; outside the type's range the conversion is undefined, and the build
\* wraps or saturates
AsType(v, bit_depth, cast) ==
    LET top == IF bit_depth > 8 THEN 65535 ELSE 255
    IN  IF 0 <= v /\ v <= top THEN v
        ELSE IF cast = "wrap" THEN v % (top + 1)
        ELSE Clip(v, 0, top)

CastModes == {"wrap", "saturate"}

SeqMax(f) == CHOOSE m \in { f[k] : k \in DOMAIN f } : \A k \in DOMAIN f : f[k] <= m

\* The values of a float image as one flat sequence
FlatValues(img) ==
    IF img.ndim = 2 THEN img.px
    ELSE [k \in 1..(3 * Len(img.px)) |-> img.px[(k + 2) \div 3][((k - 1) % 3) + 1]]

\* _ensure_uint on one value of a float image whose maximum is fmax
EnsureUintValue(v, fmax, bit_depth, cast) ==
    AsType(RoundHalfEven(IF fmax <= FP THEN Clip(v, 0, FP) * 255 ELSE v), bit_depth, cast)

\* _ensure_uint(img, bit_depth): an integer image as it is, a float image scaled, rounded
\* and cast
ensure_uint(img, bit_depth, cast) ==
    IF img.dtype # "float" THEN img
    ELSE [ndim |-> img.ndim,
          dtype |-> IF bit_depth > 8 THEN "uint16" ELSE "uint8",
          px |-> IF img.ndim = 2
                 THEN [k \in 1..Len(img.px) |->
                          EnsureUintValue(img.px[k], SeqMax(FlatValues(img)), bit_depth, cast)]
                 ELSE [k \in 1..Len(img.px) |->
                          [ch \in 1..3 |->
                              EnsureUintValue(img.px[k][ch], SeqMax(FlatValues(img)),
                                              bit_depth, cast)]]]

PromoteFirstChannelOnly(v) == <<v, 0, 0>>

\* np.repeat(sdr[..., None], 3, axis=2) on one pixel
Promote(v) == <<v, v, v>>

\* if sdr.ndim == 2: sdr = np.repeat(sdr[..., None], 3, axis=2)
PromoteGray(sdr) ==
    IF sdr.ndim = 2
    THEN [ndim |-> 3, dtype |-> sdr.dtype, px |-> [k \in 1..Len(sdr.px) |-> Promote(sdr.px[k])]]
    ELSE sdr

-----------------------------------------------------------------------------
(* The functions called on their own, on inputs drawn from bounded sets.   *)

MaxPixels == 2
MaxCenters == 3
MaxSamples == 1

\* the sequences of one to n elements of S
SeqsUpTo(S, n) == UNION { [1..k -> S] : k \in 1..n }

\* the elements of a set of numbers in ascending order
RECURSIVE Ascending(_)
Ascending(S) ==
    IF S = {} THEN <<>>
    ELSE LET m == CHOOSE x \in S : \A y \in S : x <= y
         IN  <<m>> \o Ascending(S \ {m})

\* centers 1, 3, 7 and 8, and samples on and between the edges they give
CenterGrid == {1 * FP, 3 * FP, 7 * FP, 8 * FP}
CenterSeqs == { Ascending(S) : S \in { T \in SUBSET CenterGrid : Cardinality(T) <= MaxCenters } }
SampleGrid == { k * (FP \div 2) : k \in -5..21 }
SampleSeqs == {<<>>} \cup SeqsUpTo(SampleGrid, MaxSamples)

BitDepths == {8, 10}

\* code values of a frame of the bit depth: black, white, a saturated red, two mixed
\* colours, and one above the nominal range
CodePixels(bitDepth) ==
    LET top == maxValueY(bitDepth)
        unit == 2 ^ (bitDepth - 8)
    IN  { <<0, 0, 0>>, <<top, top, top>>, <<top, 0, 0>>,
          <<12 * unit, 200 * unit, 90 * unit>>, <<top + 1, 128 * unit, 4 * top>> }

\* (wB, wC): the defaults, a small brightness weight, and no brightness weight
WeightPairs == { <<500000, 500000>>, <<5000, FP>>, <<0, FP>> }

\* HDR PQ pixels: two grays about the upper breakpoint of the mapping curve, one under the
\* lower breakpoint, the ends of the PQ range and beyond them, and a colour
HdrPixels ==
    { <<459740, 459740, 459740>>, <<459750, 459750, 459750>>, <<131000, 131000, 131000>>,
      <<0, 0, 0>>, <<FP, FP, FP>>, <<-FP, 2 * FP, 600000>> }

MappingCurves == {"PiecewiseLinear", "Gamma"}
GammaValues == {2200000, 500000}
AlphaValues == {FP, 2 * FP}

\* images as _read_image returns them: 2-D or 3-D, of integer or float values
GrayValues(dtype) ==
    IF dtype = "uint8" THEN {0, 128, 255}
    ELSE IF dtype = "uint16" THEN {0, 1023, 65535}
    ELSE {0, FP \div 2, FP, 5 * (FP \div 2), 300 * FP, -2 * FP}
ImagesOf(ndim, dtype) ==
    IF ndim = 2
    THEN { [ndim |-> 2, dtype |-> dtype, px |-> x] : x \in SeqsUpTo(GrayValues(dtype), MaxPixels) }
    ELSE { [ndim |-> 3, dtype |-> dtype, px |-> <<[ch \in 1..3 |-> v] \o <<>>, <<v, 0, v>>>>] :
              v \in GrayValues(dtype) }
DTypes == {"uint8", "uint16", "float"}

InitFn == BatchIdle /\ FnIdle

\* _histogram(x, centers)
CallHistogram ==
    /\ fn = "idle"
    /\ \E c \in CenterSeqs, x \in SampleSeqs :
          /\ inp' = [x |-> x, centers |-> c]
          /\ out' = [edges |-> IF Len(c) = 0 THEN <<>> ELSE HistEdges(c),
                     counts |-> Histogram(x, c)]
    /\ fn' = "histogram"
    /\ UNCHANGED batchVars

\* process_one_file from the read to the call of the ITMO: the buffer handed to it
PrepareFrame ==
    /\ fn = "idle"
    /\ \E ndim \in {2, 3}, dtype \in DTypes, bit_depth \in BitDepths, cast \in CastModes :
        \E img \in ImagesOf(ndim, dtype) :
          /\ inp' = [img |-> img, bit_depth |-> bit_depth]
          /\ out' = [coerced |-> ensure_uint(img, bit_depth, cast),
                     sdr |-> PromoteGray(ensure_uint(img, bit_depth, cast))]
    /\ fn' = "prepare"
    /\ UNCHANGED batchVars

\* proposed_itmo(input_frame, input_bit_depth, wB, wC)
CallItmo ==
    /\ fn = "idle"
    /\ \E bitDepth \in BitDepths, w \in WeightPairs :
          \E frame \in SeqsUpTo(CodePixels(bitDepth), MaxPixels) :
              /\ inp' = [input_frame |-> frame, input_bit_depth |-> bitDepth,
                         wB |-> w[1], wC |-> w[2]]
              /\ out' = proposed_itmo(frame, bitDepth, w[1], w[2])
    /\ fn' = "itmo"
    /\ UNCHANGED batchVars

\* proposed_tmo(imgIn_HDR, mappingCurve, gammaSDR=..., alpha=...)
CallTmo ==
    /\ fn = "idle"
    /\ \E frame \in SeqsUpTo(HdrPixels, MaxPixels), mappingCurve \in MappingCurves,
          gammaSDR \in GammaValues, alpha \in AlphaValues :
          /\ inp' = [imgIn_HDR |-> frame, mappingCurve |-> mappingCurve,
                     gammaSDR |-> gammaSDR, alpha |-> alpha]
          /\ out' = proposed_tmo(frame, mappingCurve, gammaSDR, alpha)
    /\ fn' = "tmo"
    /\ UNCHANGED batchVars

\* proposed_tmo on the frame a call of proposed_itmo returned
TmoAfterItmo ==
    /\ fn = "itmo"
    /\ out.finite
    /\ \E mappingCurve \in MappingCurves :
          /\ inp' = [imgIn_HDR |-> out.imgOut, mappingCurve |-> mappingCurve,
                     gammaSDR |-> 2200000, alpha |-> FP]
          /\ out' = proposed_tmo(out.imgOut, mappingCurve, 2200000, FP)
    /\ fn' = "tmo"
    /\ UNCHANGED batchVars

Return ==
    /\ fn # "idle"
    /\ fn' = "idle"
    /\ inp' = <<>>
    /\ out' = <<>>
    /\ UNCHANGED batchVars

NextFn == CallHistogram \/ PrepareFrame \/ CallItmo \/ CallTmo \/ TmoAfterItmo \/ Return

SpecFn == InitFn /\ [][NextFn]_vars

-----------------------------------------------------------------------------
(* The batch loop: claims C1 to C4.                                        *)

Processed(i) == log[i].status \in {"ok", "err"}
ExistingOutputs == { p \in OutPaths : Exists(outFS, p) }
SkipLine(ip) == [rel |-> Rel(ip, args), status |-> "skip", steps |-> <<>>, raised |-> "none"]

\* C1: with the repository's proposed_tmo, every file the reader decodes (H x W x 3 or
\* H x W) that the loop processes, and whose write does not fail, completes read, coerce,
\* ITMO, optional HDR save, TMO, quantize and write in this order, is reported [ok], and
\* its output file exists.
C1_ProcessCompletes ==
    \A i \in 1..Len(log) :
        (/\ args.tmo_path = "none"
         /\ Processed(i)
         /\ inDir[files[i]] \in {"rgb", "gray"}
         /\ log[i].raised # "write")
        => /\ log[i].status = "ok"
           /\ log[i].steps = AllSteps(inDir[files[i]], args)
           /\ Exists(outFS, OutRel(files[i], args))

\* C2: without --overwrite no step of any run changes an output file that exists, so the
\* second run leaves what the first run wrote untouched, and the loop's iteration for a
\* file whose output exists prints [skip] and nothing else.
C2_BatchIdempotent ==
    [][ ~args.overwrite =>
          /\ \A p \in OutPaths : Exists(outFS, p) => outFS'[p] = outFS[p]
          /\ (pc = "loop" /\ Exists(outFS, OutRel(files[idx], args)))
                => log' = Append(log, SkipLine(files[idx])) ]_vars

\* C2's case: the second run has ended, the first run wrote an output, and the second run
\* reported that file [skip] and left the first run's content.
C2_Witness ==
    /\ run = 2 /\ pc = "exit" /\ ~args.overwrite /\ files # <<>>
    /\ \E i \in 1..Len(log) :
          /\ OutRel(files[i], args) \in written1
          /\ log[i].status = "skip"
          /\ outFS[OutRel(files[i], args)].run = 1

\* C3: the loop never aborts; the lines it has printed are one per visited file, in the
\* order of the sorted list, each [ok], [skip] or [err] ([err] exactly when the file's
\* processing raised), and when the loop has ended every matched file has its line.
C3_FailureIsolation ==
    /\ pc # "crashed"
    /\ (pc \in {"loop", "exit"} /\ files # <<>>) =>
          /\ Len(log) = idx - 1
          /\ idx <= Len(files) + 1
          /\ \A i \in 1..Len(log) :
                /\ log[i].rel = Rel(files[i], args)
                /\ log[i].status \in {"ok", "skip", "err"}
                /\ log[i].status = "err" <=> log[i].raised # "none"
    /\ (pc = "exit" /\ files # <<>>) => Len(log) = Len(files)
    /\ (pc = "loop") => idx <= Len(files)

\* C3's case: a file's processing raised and a later file was still processed and
\* reported [ok] before the loop ended.
C3_Witness ==
    /\ pc = "exit"
    /\ \E i, j \in 1..Len(log) : i < j /\ log[i].status = "err" /\ log[j].status = "ok"

\* C4: after the first run over an initially empty output directory in which no file's
\* processing raised, there are as many output files as matched input files and no file
\* was skipped.
C4_OneOutputPerInput ==
    (/\ pc = "exit" /\ run = 1 /\ files # <<>>
     /\ initOut = {}
     /\ \A i \in 1..Len(log) : log[i].status # "err")
    => /\ Cardinality(ExistingOutputs) = Len(files)
       /\ \A i \in 1..Len(log) : log[i].status = "ok"

-----------------------------------------------------------------------------
(* The tone curves and the value ranges: claims C5 to C7, C9.              *)

\* C5: with the PiecewiseLinear curve and its fixed coefficients, for all lumas
\* y1 <= y2 in [0.0215, 0.7518] the compressed luma of y1 is at most that of y2, also
\* when the two straddle a breakpoint.
C5_TmoCurveMonotone ==
    (fn = "tmo" /\ inp.mappingCurve = "PiecewiseLinear")
    => \A j, k \in 1..Len(out.y_HDR_PQ) :
          (/\ 21500 <= out.y_HDR_PQ[j]
           /\ out.y_HDR_PQ[j] <= out.y_HDR_PQ[k]
           /\ out.y_HDR_PQ[k] <= 751800)
          => out.y_SDR_PQ[j] <= out.y_SDR_PQ[k]

\* PQ lumas from xmin to xmax, 0.005 apart
LumaGrid == { itmo_xmin + k * (FP \div 200) : k \in 0..89 } \cup {itmo_xmax}

\* C6: when the solved slopes s1, s2, s3 are all positive, the expansion function with
\* the intercepts and the x1, x2 in effect when the curve is applied is non-decreasing in
\* the PQ luma over [xmin, xmax], before and after the clamp to [ymin, ymax].
C6_ItmoCurveMonotone ==
    (/\ fn = "itmo"
     /\ out.finite
     /\ out.curve.s1 > 0 /\ out.curve.s2 > 0 /\ out.curve.s3 > 0)
    => \A l1, l2 \in LumaGrid :
          l1 <= l2 => /\ ExpandLuma(out.curve, l1) <= ExpandLuma(out.curve, l2)
                      /\ ClampLuma(ExpandLuma(out.curve, l1))
                            <= ClampLuma(ExpandLuma(out.curve, l2))

C9_NoDivisionByZero ==
    fn = "itmo"
    => \A k \in 1..Len(inp.input_frame) :
          /\ out.L_disp[k] >= FP \div 10
          /\ out.l_disp_PQ[k] > 0
          /\ (\A j \in 1..Len(inp.input_frame) : inp.input_frame[j] = <<0, 0, 0>>)
             => out.L_disp[k] = FP \div 10

\* an all-zero two-pixel frame expanded with a finite solve
C9_Witness ==
    /\ fn = "itmo" /\ out.finite
    /\ inp.input_frame = << <<0, 0, 0>>, <<0, 0, 0>> >>
    /\ out.L_disp = << FP \div 10, FP \div 10 >>
    /\ out.l_disp_PQ[1] > 0

-----------------------------------------------------------------------------
(* _histogram: claim C8.                                                   *)

\* C8: one count per center (none for no center); for two or more increasing centers
\* the interior edges are the midpoints and the outer edges lie one adjacent half-gap
\* beyond the first and last center ([1,3,7] gives [0,2,5,9]); one center c has the edges
\* c - 0.5 and c + 0.5; a sample on an interior edge counts in the bin to its right, one on
\* the last edge in the last bin, one outside the edges in no bin.
C8_HistogramByCenters ==
    fn = "histogram"
    => LET c == inp.centers
           x == inp.x
           n == Len(inp.centers)
           e == out.edges
           h == out.counts
       IN  /\ Len(h) = n
           /\ n = 0 => h = <<>>
           /\ n >= 2 => /\ Len(e) = n + 1
                        /\ \A i \in 1..(n - 1) : 2 * e[i + 1] = c[i] + c[i + 1]
                        /\ 2 * (c[1] - e[1]) = c[2] - c[1]
                        /\ 2 * (e[n + 1] - c[n]) = c[n] - c[n - 1]
           /\ c = <<1 * FP, 3 * FP, 7 * FP>> => e = <<0, 2 * FP, 5 * FP, 9 * FP>>
           /\ n = 1 => e = <<c[1] - FP \div 2, c[1] + FP \div 2>>
           /\ n >= 1 =>
                /\ \A i \in 1..n :
                      h[i] = Cardinality({ k \in 1..Len(x) :
                                 /\ e[i] <= x[k]
                                 /\ x[k] < e[i + 1] \/ (i = n /\ x[k] = e[n + 1]) })
                /\ \A k \in 1..Len(x) : \A i \in 2..n :
                      x[k] = e[i] => h[i] >= 1 /\ (Len(x) = 1 => h[i - 1] = 0)
                /\ SeqSum(h, 1, n)
                      = Cardinality({ k \in 1..Len(x) : e[1] <= x[k] /\ x[k] <= e[n + 1] })

\* centers [1,3,7] and the sample 9, the last edge, counted in the last bin
C8_Witness ==
    /\ fn = "histogram"
    /\ inp.centers = <<1 * FP, 3 * FP, 7 * FP>>
    /\ inp.x = <<9 * FP>>
    /\ out.edges = <<0, 2 * FP, 5 * FP, 9 * FP>>
    /\ out.counts = <<0, 0, 1>>

-----------------------------------------------------------------------------
(* The grayscale promotion: claim C10.                                     *)

\* C10: for a 2-D image of any size the buffer handed to the ITMO has three channels,
\* and in every pixel each of them holds the pixel's code value: the value read for an
\* image of integers, the value _ensure_uint made of it for an image of floats.
C10_GrayscalePromotion ==
    (fn = "prepare" /\ inp.img.ndim = 2)
    => /\ out.sdr.ndim = 3
       /\ Len(out.sdr.px) = Len(inp.img.px)
       /\ \A k \in 1..Len(inp.img.px) :
             /\ Len(out.sdr.px[k]) = 3
             /\ \A ch \in 1..3 :
                   /\ out.sdr.px[k][ch] = out.coerced.px[k]
                   /\ inp.img.dtype # "float" => out.sdr.px[k][ch] = inp.img.px[k]

\* a 2-D image of two 16-bit pixels promoted
C10_Witness ==
    /\ fn = "prepare"
    /\ inp.img.ndim = 2 /\ inp.img.dtype = "uint16" /\ inp.bit_depth = 10
    /\ inp.img.px = <<1023, 0>>
    /\ out.sdr.px = << <<1023, 1023, 1023>>, <<0, 0, 0>> >>

-----------------------------------------------------------------------------
(* The saved HDR arrays: claim C11.                                        *)

SavedHdr(i) == Contains(log[i].steps, "save_hdr")

\* C11: with --save-hdr-npy-dir set, distinct processed input files are saved to
\* distinct .npy paths, so the array of every input processed in the run is still the
\* one stored under its path, in recursive and in non-recursive mode.
C11_OneNpyPerInput ==
    (pc \in {"loop", "exit"} /\ files # <<>> /\ args.save_hdr)
    => /\ \A i, j \in 1..Len(log) :
             (i # j /\ SavedHdr(i) /\ SavedHdr(j)) => NpyName(files[i]) # NpyName(files[j])
       /\ \A i \in 1..Len(log) :
             SavedHdr(i) => npyFS[NpyName(files[i])].src = files[i]

-----------------------------------------------------------------------------
(* preprocess_clahe.py, preprocess_reinhard.py, preprocess_mertens.py: the *)
(* loop over rgb.txt.  A line is the sequence of its characters without    *)
(* the newline that ends it; a file is the sequence of its lines.          *)

MaxLines == 3

\* str.strip() and str.split() on the space character
RECURSIVE LStrip(_)
LStrip(s) == IF s # <<>> /\ Head(s) = " " THEN LStrip(Tail(s)) ELSE s
RECURSIVE RStrip(_)
RStrip(s) == IF s # <<>> /\ s[Len(s)] = " " THEN RStrip(SubSeq(s, 1, Len(s) - 1)) ELSE s
Strip(s) == RStrip(LStrip(s))

\* the first field of a string that starts with no space, and what follows it
RECURSIVE FieldLen(_)
FieldLen(s) == IF s = <<>> \/ Head(s) = " " THEN 0 ELSE 1 + FieldLen(Tail(s))
RECURSIVE Split(_)
Split(s) ==
    IF LStrip(s) = <<>> THEN <<>>
    ELSE LET t == LStrip(s)
             n == FieldLen(LStrip(s))
         IN  <<SubSeq(t, 1, n)>> \o Split(SubSeq(t, n + 1, Len(t)))

\* line.startswith("#")
StartsWithHash(line) == line # <<>> /\ Head(line) = "#"

\* if not line.strip() or line.startswith("#")
IsSkipped(line) == Strip(line) = <<>> \/ StartsWithHash(line)

FormatLineJoined(ts, rel) == ts \o rel

\* f"{ts} {out_rel}\n" with out_rel = rel
FormatLine(ts, rel) == ts \o <<" ">> \o rel

\* lines of an rgb.txt: a comment, an empty and a blank line, data lines with one or more
\* spaces about their two fields, a data line whose first field is a '#' after a space,
\* and a line of one field
LineSamples ==
    { <<"#", " ", "x">>, <<>>, <<" ">>, <<"1", " ", "a">>, <<"2", " ", " ", "b">>,
      <<" ", "3", " ", "a", " ">>, <<" ", "#", " ", "b">>, <<"4">> }
RelPaths == { <<"a">>, <<"b">> }
Utilities == {"clahe", "reinhard", "mertens"}

\* --max_frames, an option of preprocess_mertens.py only (0 = all)
MaxFramesOf(util) == IF util = "mertens" THEN {0, 1, 2} ELSE {0}

ListInputs ==
    UNION { [util : {u}, lines : {<<>>} \cup SeqsUpTo(LineSamples, MaxLines),
             readable : SUBSET RelPaths, max_frames : MaxFramesOf(u)] : u \in Utilities }

\* main at the head of the for loop, rgb.txt of the output folder opened and empty
InitList ==
    /\ BatchIdle
    /\ inp \in ListInputs
    /\ fn = inp.util
    /\ out = [pos |-> 1, fout |-> <<>>, processed |-> 0, pc |-> "loop"]

AtLine == fn \in Utilities /\ out.pc = "loop" /\ out.pos <= Len(inp.lines)

\* an iteration on a blank line or a comment: the comment is written as it is
CopyOrSkipLine ==
    /\ AtLine
    /\ IsSkipped(inp.lines[out.pos])
    /\ out' = [out EXCEPT !.pos = @ + 1,
                          !.fout = IF StartsWithHash(inp.lines[out.pos])
                                   THEN Append(@, inp.lines[out.pos]) ELSE @]
    /\ UNCHANGED <<batchVars, fn, inp>>

\* an iteration on a line that is not of two fields: ts, rel = line.strip().split() raises
\* ValueError, which nothing catches
BadLine ==
    /\ AtLine
    /\ ~IsSkipped(inp.lines[out.pos])
    /\ Len(Split(Strip(inp.lines[out.pos]))) # 2
    /\ out' = [out EXCEPT !.pc = "crashed"]
    /\ UNCHANGED <<batchVars, fn, inp>>

\* an iteration on a data line whose image cv2.imread cannot read
FailedRead ==
    /\ AtLine
    /\ ~IsSkipped(inp.lines[out.pos])
    /\ Len(Split(Strip(inp.lines[out.pos]))) = 2
    /\ Split(Strip(inp.lines[out.pos]))[2] \notin inp.readable
    /\ out' = [out EXCEPT !.pos = @ + 1]
    /\ UNCHANGED <<batchVars, fn, inp>>

\* an iteration on a data line whose image is read, processed and written, and its line
\* written to rgb.txt; preprocess_mertens.py leaves the loop at max_frames images
WriteFrame ==
    /\ AtLine
    /\ ~IsSkipped(inp.lines[out.pos])
    /\ Len(Split(Strip(inp.lines[out.pos]))) = 2
    /\ LET f == Split(Strip(inp.lines[out.pos]))
       IN  /\ f[2] \in inp.readable
           /\ out' = [pos |-> out.pos + 1,
                      fout |-> Append(out.fout, FormatLine(f[1], f[2])),
                      processed |-> out.processed + 1,
                      pc |-> IF fn = "mertens" /\ inp.max_frames # 0
                                   /\ out.processed + 1 >= inp.max_frames
                             THEN "closed" ELSE "loop"]
    /\ UNCHANGED <<batchVars, fn, inp>>

\* the end of the file: the with block closes both files
CloseList ==
    /\ fn \in Utilities /\ out.pc = "loop" /\ out.pos > Len(inp.lines)
    /\ out' = [out EXCEPT !.pc = "closed"]
    /\ UNCHANGED <<batchVars, fn, inp>>

NextList == CopyOrSkipLine \/ BadLine \/ FailedRead \/ WriteFrame \/ CloseList

SpecList == InitList /\ [][NextList]_vars

-----------------------------------------------------------------------------
(* The dataset list: claim C12.                                            *)

IsBlank(line) == \A i \in 1..Len(line) : line[i] = " "
IsComment(line) == Len(line) > 0 /\ line[1] = "#"
IsData(line) == ~IsBlank(line) /\ ~IsComment(line)
TwoFieldLines(lines) == \A i \in 1..Len(lines) : IsData(lines[i]) => Len(Split(lines[i])) = 2

\* the list the output is to hold: the comments as they are, "<timestamp> <relative-path>"
\* for the data lines whose image can be read, in input order
RECURSIVE ExpectedList(_, _)
ExpectedList(lines, readable) ==
    IF lines = <<>> THEN <<>>
    ELSE (IF IsComment(Head(lines)) THEN <<Head(lines)>>
          ELSE IF IsData(Head(lines)) /\ Split(Head(lines))[2] \in readable
               THEN << Split(Head(lines))[1] \o <<" ">> \o Split(Head(lines))[2] >>
               ELSE <<>>)
         \o ExpectedList(Tail(lines), readable)

\* C12: for an rgb.txt whose data lines have exactly two fields, the rgb.txt a utility
\* leaves holds, in input order and nothing else, every comment as it is and the line
\* "<timestamp> <relative-path>" of every data line whose image is read; blank lines and
\* unreadable images give no line and do not end the loop.
C12_ListPassThrough ==
    (fn \in Utilities /\ out.pc = "closed" /\ TwoFieldLines(inp.lines))
    => out.fout = ExpectedList(inp.lines, inp.readable)

\* C12 as the code has it: the same for preprocess_clahe.py and preprocess_reinhard.py and
\* for preprocess_mertens.py with --max_frames 0; with --max_frames N > 0
\* preprocess_mertens.py leaves the loop after the N-th image it wrote, and its rgb.txt
\* holds the list of the lines up to that one.
C12_ListPassThroughUpToMaxFrames ==
    (fn \in Utilities /\ out.pc = "closed" /\ TwoFieldLines(inp.lines))
    => /\ out.fout = ExpectedList(SubSeq(inp.lines, 1, out.pos - 1), inp.readable)
       /\ (fn # "mertens" \/ inp.max_frames = 0) => out.pos = Len(inp.lines) + 1
       /\ out.pos <= Len(inp.lines)
             => /\ fn = "mertens" /\ inp.max_frames > 0
                /\ out.processed = inp.max_frames
                /\ IsData(inp.lines[out.pos - 1])

\* a comment, a data line within spaces whose image is read, a data line whose image is not
C12_Witness ==
    /\ fn = "clahe" /\ out.pc = "closed"
    /\ inp.lines = << <<"#", " ", "x">>, <<" ", "3", " ", "a", " ">>, <<"2", " ", " ", "b">> >>
    /\ inp.readable = { <<"a">> }
    /\ out.fout = << <<"#", " ", "x">>, <<"3", " ", "a">> >>

-----------------------------------------------------------------------------
(* The steps of the ITMO: claims C13 to C16.                               *)

\* C13: for bit depth 8 and 10 every code value, clamped to [0, 2^bitDepth - 1] and
\* normalized by (code / 2^(bitDepth - 8)) / 255, lies in [0, 1].
C13_NormalizedInUnitRange ==
    fn = "itmo"
    => \A k \in 1..Len(inp.input_frame) : \A ch \in 1..3 :
          /\ 0 <= Normalize(inp.input_frame[k][ch], inp.input_bit_depth)
          /\ Normalize(inp.input_frame[k][ch], inp.input_bit_depth) <= FP

\* C14: the curve is applied with the breakpoints x1 = 0.1233 and x2 = 0.3975 of the
\* linear system: luma below x1 takes segment 1, luma in [x1, x2) segment 2, any other
\* luma segment 3, and the intercept a2 is (s1 - s2) * x1 + a1 at that x1.
C14_SegmentSelection ==
    (fn = "itmo" /\ out.finite)
    => /\ \A k \in 1..Len(out.l_disp_PQ) :
             out.lhdr_raw[k] =
                IF out.l_disp_PQ[k] < 123300
                THEN FMul(out.curve.s1, out.l_disp_PQ[k]) + out.curve.a1
                ELSE IF out.l_disp_PQ[k] < 397500
                     THEN FMul(out.curve.s2, out.l_disp_PQ[k]) + out.curve.a2
                     ELSE FMul(out.curve.s3, out.l_disp_PQ[k]) + out.curve.a3
       /\ out.curve.x1 = 123300
       /\ out.curve.x2 = 397500
       /\ out.curve.a2 = FMul(out.curve.s1 - out.curve.s2, 123300) + out.curve.a1


\* p_1, p_2, p_3: the headroom (1.0 - p) / 2.0 of a region probability
Headroom(p) == (FP - p) \div 2

\* C15: for bit depth 8 and 10 the three regions [0, 35), [35, 192), [192, 2^bitDepth)
\* are disjoint and cover every bin of the luma histogram: when the histogram total is
\* non-zero p1 + p2 + p3 = 1, and the headroom values (1 - p1)/2, (1 - p2)/2, (1 - p3)/2
\* sum to 1 with each in [0, 0.5]; when the total is zero p1 = p2 = p3 = 0 and the
\* function still returns.  Equality is up to the rounding of the quotients, one unit of
\* the last digit for each counted sample.
C15_RegionProbabilities ==
    fn = "itmo"
    => /\ out.p.total # 0
          => /\ Abs(out.p.p1 + out.p.p2 + out.p.p3 - FP) <= out.p.total
             /\ Abs(Headroom(out.p.p1) + Headroom(out.p.p2) + Headroom(out.p.p3) - FP)
                   <= out.p.total + 2
             /\ \A p \in {out.p.p1, out.p.p2, out.p.p3} :
                   /\ 0 <= p /\ p <= FP
                   /\ 0 <= Headroom(p) /\ Headroom(p) <= FP \div 2
       /\ out.p.total = 0
          => /\ out.p.p1 = 0 /\ out.p.p2 = 0 /\ out.p.p3 = 0
             /\ Len(out.imgOut) = Len(inp.input_frame)

\* a 10-bit frame with samples counted in the regions beyond bin 192
C15_Witness ==
    /\ fn = "itmo"
    /\ inp.input_bit_depth = 10
    /\ out.p.total = 2
    /\ out.p.p3 > 0


\* the number of bins of the three slices n_light[:35], n_light[35:192], n_light[192:]
\* (the sizes of the zero vectors of the empty-histogram branch)
RegionSizes(n_light) ==
    [n1 |-> threshold_low,
     n2 |-> threshold_high - threshold_low,
     n3 |-> Len(n_light) - threshold_high]

\* C16: the weights n1 = 35, n2 = 157, n3 = 64 of the curve solve equal the number of
\* histogram bins of the three probability regions [0, 35), [35, 192), [192, 2^bitDepth)
\* at every supported bit depth (8 and 10).
C16_RegionWeightsAreBinCounts ==
    fn = "itmo"
    => /\ itmo_n1 = RegionSizes(LumaHistogram(out.l_disp_PQ, inp.input_bit_depth)).n1 * FP
       /\ itmo_n2 = RegionSizes(LumaHistogram(out.l_disp_PQ, inp.input_bit_depth)).n2 * FP
       /\ itmo_n3 = RegionSizes(LumaHistogram(out.l_disp_PQ, inp.input_bit_depth)).n3 * FP

====
